---- MODULE Spec2Model ----
(***************************************************************************)
(* goplay: the Browser session of package chrome (src/chrome.go) and the   *)
(* coordinate mapping of its earlier variants (src/chrome/chrome.go,       *)
(* src/pkg/chrome/chrome.go).                                              *)
(*                                                                         *)
(* Spec     : one caller runs Start, Navigate, Evaluate, Select, Click and *)
(*            Close on its Browser, one method at a time; its ctx may be   *)
(*            cancelled and its connection may go away at any moment.      *)
(* SpecRace : two callers, each with a Browser of its own, run Start       *)
(*            concurrently; the package variable _port is shared.          *)
(* SpecLive : Start and Navigate of Spec, with the calling goroutine       *)
(*            scheduled fairly.                                            *)
(* SpecGeo  : calibration, GetIntCoordinates, getCoords and Click applied  *)
(*            to bounded sizes and rectangles.                             *)
(* SpecBin  : the chrome binary Start resolves, per platform and           *)
(*            CHROME_BINARY.                                               *)
(*                                                                         *)
(* A float64 is modelled as an integer numerator over the denominator Den  *)
(* (the value n stands for n/Den); every value drawn below is exactly      *)
(* representable, so float64 arithmetic on them is exact.                  *)
(***************************************************************************)
EXTENDS Integers, Sequences, FiniteSets, TLC

\* ------------------------------------------------------------------ bounds
MaxStarts == 2      \* Start calls per caller
MaxNavs == 2        \* Navigate calls a caller makes on its own
Den == 2            \* resolution of a measurement: values are multiples of 1/Den
MaxSize == 3        \* largest numerator of a measured screen / window size
MaxRect == 3        \* largest numerator of a rectangle's x, y

Callers == {1, 2}

\* ------------------------------------------------------------ state (Spec)
VARIABLES
    _port,      \* src/chrome.go:24, package variable
    pc,         \* per caller: the statement its Browser method is at
    caller,     \* per caller: who called Navigate ("start" or "user")
    starts,     \* per caller: Start calls made
    navs,       \* per caller: Navigate calls made on its own
    seen,       \* per caller: the value of _port read by the test at line 93
    myport,     \* per caller: the port put into --remote-debugging-port (line 99)
    pid,        \* Browser.pid
    conn,       \* Browser.conn: "nil", "open" or "closed"
    c,          \* Browser.c is non-nil
    w,          \* Browser.w, the calibrated bounds
    lw,         \* setupCoords' local w (window size)
    log,        \* per caller: the steps of the current Start, each with its outcome
    nlog,       \* per caller: the steps of the current Navigate, each with its outcome
    clog,       \* per caller: the steps of the current Close, each with its outcome
    ret,        \* per caller: what the last returned method returned
    resp,       \* per caller: the transport's reply to the last Runtime.evaluate
    sub,        \* per caller: the load-event client of the current Navigate
    leaked,     \* per caller: load-event clients Navigate returned without closing
    page,       \* per browser: "idle" or "loading"
    missed,     \* per browser: a load event fired for a Navigate that had no client open
    nextPid,    \* the operating system's next process identifier
    killed,     \* process identifiers that were sent kill -9
    cancelled,  \* per caller: the ctx it passes to its Browser's methods is done
    held        \* per caller: a Start of its Browser returned nil and no Close has since

\* ---------------------------------------------------------- state (SpecGeo)
VARIABLES
    b,          \* the Browser's bounds (Top, Bottom, Left, Right)
    rect,       \* the DOMRect handed to the mapping
    coords,     \* what GetIntCoordinates returned
    fxy,        \* what getCoords returned
    gstep,      \* "new", "init" (calibrated), "mapped", "centred", "clicked"
    meas,       \* the window inner size and the screen size the browser reports
    dispatched, \* the mouse events Click handed to Input.DispatchMouseEvent
    cerr        \* what Click returned

\* ---------------------------------------------------------- state (SpecBin)
VARIABLES
    goos,         \* runtime.GOOS
    env,          \* the environment variable CHROME_BINARY: set or not, and its value
    chromeBinary, \* Start's local chromeBinary after line 87
    bstep         \* "new", "resolved"

svars == <<_port, pc, caller, starts, navs, seen, myport, pid, conn, c, w, lw, log,
           nlog, clog, ret, resp, sub, leaked, page, missed, nextPid, killed,
           cancelled, held>>
bvars == <<goos, env, chromeBinary, bstep>>
gvars == <<b, rect, coords, fxy, gstep, meas, dispatched, cerr, bvars>>
vars == <<svars, gvars>>

\* ------------------------------------------------------------------ values
NoStr == [kind |-> "text", Width |-> 0, Height |-> 0, txt |-> ""]
Text(t) == [kind |-> "text", Width |-> 0, Height |-> 0, txt |-> t]
\* the text JSON.stringify({width: .., height: ..}) produces
SizeJSON(wd, ht) == [kind |-> "json", Width |-> wd, Height |-> ht, txt |-> "size"]

ZeroSize == [Width |-> 0, Height |-> 0]
ZeroWindow == [Top |-> 0, Bottom |-> 0, Left |-> 0, Right |-> 0]
NoRet == [op |-> "none", err |-> "nil", val |-> NoStr]
NoSub == [open |-> FALSE, buf |-> 0]
NoResp == [terr |-> FALSE, exc |-> FALSE, t |-> "absent", s |-> NoStr]

\* ------------------------------------------------- transport replies (Spec)
ReservedPort == 9000

\* the (Width, Height) pairs a size evaluation can report
ReplySizes == {[Width |-> MaxSize, Height |-> MaxSize - 1],
               [Width |-> MaxSize - 1, Height |-> MaxSize]}
Strings == {Text("boom")} \cup {SizeJSON(z.Width, z.Height) : z \in ReplySizes}

\* A reply to Runtime.evaluate: the call failed (terr), or it carries a result whose
\* value is absent, null, a number or a string, with exceptionDetails set (exc) or not.
Replies ==
    {[terr |-> TRUE, exc |-> FALSE, t |-> "absent", s |-> NoStr]}
    \cup {[terr |-> FALSE, exc |-> e, t |-> t, s |-> NoStr] :
             e \in BOOLEAN, t \in {"absent", "null", "number"}}
    \cup {[terr |-> FALSE, exc |-> e, t |-> "string", s |-> s] :
             e \in BOOLEAN, s \in Strings}

\* what the transport can answer on a connection in state cn
RepliesOn(cn) == IF cn = "open" THEN Replies ELSE {r \in Replies : r.terr}

\* a call that is given ctx goes through: the connection is open and ctx is not done
Usable(p) == conn[p] = "open" /\ ~cancelled[p]
\* what the transport can answer to caller p's Runtime.Evaluate(ctx, ..)
RepliesTo(p) == RepliesOn(IF cancelled[p] THEN "closed" ELSE conn[p])

\* line 158, Page.LoadEventFired(ctx): the load-event client is bound to the ctx of
\* Navigate, and is closed with ctx.Err() once that ctx is done
RecvCtxBackground(p) == FALSE
RecvCtx(p) == cancelled[p]

\* ------------------------------------------------------------ pure helpers
\* json.Unmarshal(res.Result.Value, &s), s a string: an absent value is no JSON at
\* all, null leaves s untouched and reports no error, a number cannot be stored.
UnmarshalString(r) ==
    CASE r.t = "string" -> [s |-> r.s, err |-> "nil"]
      [] r.t = "null"   -> [s |-> NoStr, err |-> "nil"]
      [] r.t = "absent" -> [s |-> NoStr, err |-> "unexpected end of JSON input"]
      [] OTHER          -> [s |-> NoStr, err |-> "cannot unmarshal into string"]

\* Browser.Evaluate: only the call's own error and the decoding are looked at.
EvaluateIgnoreCallErr(r) ==
    IF r.terr THEN [s |-> NoStr, err |-> "nil"]
    ELSE LET u == UnmarshalString(r) IN
         IF u.err # "nil" THEN [s |-> NoStr, err |-> u.err]
         ELSE [s |-> u.s, err |-> "nil"]
Evaluate(r) ==
    IF r.terr THEN [s |-> NoStr, err |-> "transport"]
    ELSE LET u == UnmarshalString(r) IN
         IF u.err # "nil" THEN [s |-> NoStr, err |-> u.err]
         ELSE [s |-> u.s, err |-> "nil"]

\* json.Unmarshal([]byte(s), &m), m a size
UnmarshalSize(s) ==
    IF s.kind = "json" THEN [m |-> [Width |-> s.Width, Height |-> s.Height], err |-> "nil"]
    ELSE [m |-> ZeroSize, err |-> "invalid JSON"]

\* getWindowSize / getScreenSize on the reply r to their evaluation
getSize(r) ==
    LET e == Evaluate(r) IN
    IF e.err # "nil" THEN [m |-> ZeroSize, err |-> e.err]
    ELSE UnmarshalSize(e.s)

\* the four assignments of setupCoords, from window size wsz and screen size ssz
setupCoordsTopFromWindow(wsz, ssz) ==
    [Top |-> wsz.Height - ssz.Height, Bottom |-> ssz.Height, Left |-> 0, Right |-> wsz.Width]
setupCoordsBottomFromWindow(wsz, ssz) ==
    [Top |-> ssz.Height - wsz.Height, Bottom |-> wsz.Height, Left |-> 0, Right |-> ssz.Width]
setupCoords(wsz, ssz) ==
    [Top |-> ssz.Height - wsz.Height, Bottom |-> ssz.Height, Left |-> 0, Right |-> ssz.Width]

\* what Start returns once setupCoords has returned err
StartAfterSetup(err) == "nil"

\* ------------------------------------------------------------ control flow
\* Start: the statement that follows statement s when s succeeded
StartNextEarlyLaunch(s) ==
    CASE s = "s_entry"   -> "s_launch"
      [] s = "s_launch"  -> "s_check"
      [] s = "s_check"   -> "s_reserve"
      [] s = "s_reserve" -> "s_connect"
      [] s = "s_connect" -> "s_page"
      [] s = "s_page"    -> "s_runtime"
      [] s = "s_runtime" -> "s_nav"
      [] s = "s_nav"     -> "s_cal_w"
      [] s = "s_cal_w"   -> "s_cal_s"
      [] OTHER           -> "idle"
StartNextLaunchBeforeReserve(s) ==
    CASE s = "s_entry"   -> "s_check"
      [] s = "s_check"   -> "s_launch"
      [] s = "s_launch"  -> "s_reserve"
      [] s = "s_reserve" -> "s_connect"
      [] s = "s_connect" -> "s_page"
      [] s = "s_page"    -> "s_runtime"
      [] s = "s_runtime" -> "s_nav"
      [] s = "s_nav"     -> "s_cal_w"
      [] s = "s_cal_w"   -> "s_cal_s"
      [] OTHER           -> "idle"
StartNext(s) ==
    CASE s = "s_entry"   -> "s_check"
      [] s = "s_check"   -> "s_reserve"
      [] s = "s_reserve" -> "s_launch"
      [] s = "s_launch"  -> "s_connect"
      [] s = "s_connect" -> "s_page"
      [] s = "s_page"    -> "s_runtime"
      [] s = "s_runtime" -> "s_nav"
      [] s = "s_nav"     -> "s_cal_w"
      [] s = "s_cal_w"   -> "s_cal_s"
      [] OTHER           -> "idle"

\* Navigate: the statement that follows statement s when s succeeded
NavNextCommandFirst(s) ==
    CASE s = "n_entry" -> "n_cmd"
      [] s = "n_cmd"   -> "n_sub"
      [] s = "n_sub"   -> "n_recv"
      [] OTHER         -> "idle"
NavNextNoRecv(s) ==
    CASE s = "n_entry" -> "n_sub"
      [] s = "n_sub"   -> "n_cmd"
      [] OTHER         -> "idle"
NavNext(s) ==
    CASE s = "n_entry" -> "n_sub"
      [] s = "n_sub"   -> "n_cmd"
      [] s = "n_cmd"   -> "n_recv"
      [] OTHER         -> "idle"

\* Close: the statement that follows statement s when s succeeded
CloseNextKillFirst(s) ==
    CASE s = "c_entry" -> "c_kill"
      [] s = "c_kill"  -> "c_conn"
      [] OTHER         -> "idle"
CloseNext(s) ==
    CASE s = "c_entry" -> "c_conn"
      [] s = "c_conn"  -> "c_kill"
      [] OTHER         -> "idle"

\* the steps of Start, as its log names them
StartOrder == <<"reserve", "launch", "connect", "enablePage", "enableRuntime",
                "navigate", "calibrate">>
NavPcs == {"n_sub", "n_cmd", "n_recv"}
Step(name, ok) == [step |-> name, ok |-> ok]
CommandSent(l) == \E i \in 1..Len(l) : l[i] = Step("command", TRUE)

\* --------------------------------------------------------------- geometry
\* Go's conversion int(f) of a float64: the fraction is dropped, toward zero.
\* The argument is a numerator over Den, the result a whole number.
intRoundHalfUp(n) == (2 * n + Den) \div (2 * Den)
int(n) == IF n >= 0 THEN n \div Den ELSE -((-n) \div Den)

\* f / 2 for the numerator n of f; the widths and heights drawn are even numerators
Half(n) == n \div 2

ErrY == "y coordinate is not between the top and bottom of the screen"
ErrX == "x coordinate is not between the left and right of the screen"

\* getCoords of src/chrome.go: the centre, moved down by Top; floats, unchecked
getCoords(bb, r) ==
    [x |-> r.X + Half(r.Width), y |-> r.Y + Half(r.Height) + bb.Top]

\* GetIntCoordinates on a Browser with bounds bb
GetIntCoordinatesNoBottom(bb, r) ==
    LET x == int(r.X + Half(r.Width))
        y == int(r.Y + Half(r.Height) + bb.Top)
    IN  IF y < int(bb.Top) THEN [x |-> 0, y |-> 0, err |-> ErrY]
        ELSE IF x < int(bb.Left) \/ x > int(bb.Right) THEN [x |-> 0, y |-> 0, err |-> ErrX]
        ELSE [x |-> x, y |-> y, err |-> "nil"]
GetIntCoordinates(bb, r) ==
    LET x == int(r.X + Half(r.Width))
        y == int(r.Y + Half(r.Height) + bb.Top)
    IN  IF y < int(bb.Top) \/ y > int(bb.Bottom) THEN [x |-> 0, y |-> 0, err |-> ErrY]
        ELSE IF x < int(bb.Left) \/ x > int(bb.Right) THEN [x |-> 0, y |-> 0, err |-> ErrX]
        ELSE [x |-> x, y |-> y, err |-> "nil"]

\* quadToDOMRect, lines 326-333; q[0] of the Go source is q[1] here
quadToDOMRect(q) ==
    [X |-> q[1], Y |-> q[2], Width |-> q[3] - q[1], Height |-> q[6] - q[2]]
\* the border quad DOM.GetBoxModel reports for an upright box: its four corners,
\* clockwise from the top left
BorderQuad(r) ==
    <<r.X, r.Y, r.X + r.Width, r.Y, r.X + r.Width, r.Y + r.Height, r.X, r.Y + r.Height>>

\* Click, lines 296-324, on a Browser with bounds bb and an element with border quad
\* q: the call named by fail returns an error ("none": no call does). It yields the
\* events handed to Input.DispatchMouseEvent and the error returned.
ClickFails == {"none", "scroll", "box", "down", "up"}
MouseEvent(t, xy) == [type |-> t, x |-> xy.x, y |-> xy.y]
Click(bb, q, fail) ==
    LET xy == getCoords(bb, quadToDOMRect(q)) IN
    CASE fail = "scroll" -> [events |-> <<>>, err |-> "scroll to"]
      [] fail = "box"    -> [events |-> <<>>, err |-> "get box model"]
      [] fail = "down"   -> [events |-> <<MouseEvent("mousePressed", xy)>>,
                             err |-> "mouse down"]
      [] fail = "up"     -> [events |-> <<MouseEvent("mousePressed", xy),
                                          MouseEvent("mouseReleased", xy)>>,
                             err |-> "mouse up"]
      [] OTHER           -> [events |-> <<MouseEvent("mousePressed", xy),
                                          MouseEvent("mouseReleased", xy)>>,
                             err |-> "nil"]

\* ---------------------------------------------------------- chrome binary
\* os.Getenv: the value of a variable that is set, "" for one that is not
Unset == [set |-> FALSE, val |-> ""]
Getenv(e) == IF e.set THEN e.val ELSE ""
DefaultChrome == "google-chrome"
MacChrome == "/Applications/Google Chrome.app/Contents/MacOS/Google Chrome"
\* lines 77-87 of Start: the default, the macOS default, the override
ResolveBinaryDarwinLast(g, e) ==
    LET o == IF Getenv(e) # "" THEN Getenv(e) ELSE DefaultChrome
    IN  IF g = "darwin" THEN MacChrome ELSE o
ResolveBinary(g, e) ==
    LET d == IF g = "darwin" THEN MacChrome ELSE DefaultChrome
    IN  IF Getenv(e) # "" THEN Getenv(e) ELSE d
\* the platforms Go builds for, and the states of CHROME_BINARY that SpecBin draws
GOOS == {"aix", "android", "darwin", "dragonfly", "freebsd", "illumos", "ios", "js",
         "linux", "netbsd", "openbsd", "plan9", "solaris", "wasip1", "windows"}
EnvValues == {"", "chromium", DefaultChrome, MacChrome}
Envs == {Unset} \cup {[set |-> TRUE, val |-> v] : v \in EnvValues}

\* the measurements and rectangles SpecGeo draws
GeoSizes == [Width : {0, MaxSize}, Height : 0..MaxSize]
GeoScreens == [Width : 0..MaxSize, Height : 0..MaxSize]
Rects == [X : -MaxRect..MaxRect, Y : -MaxRect..MaxRect, Width : {0, 2}, Height : {0, 2}]
NoCoords == [x |-> 0, y |-> 0, err |-> "none"]

\* ------------------------------------------------------------------- Init
SInit ==
    /\ _port = 0
    /\ pc = [p \in Callers |-> "idle"]
    /\ caller = [p \in Callers |-> "user"]
    /\ starts = [p \in Callers |-> 0]
    /\ navs = [p \in Callers |-> 0]
    /\ seen = [p \in Callers |-> 0]
    /\ myport = [p \in Callers |-> 0]
    /\ pid = [p \in Callers |-> 0]
    /\ conn = [p \in Callers |-> "nil"]
    /\ c = [p \in Callers |-> FALSE]
    /\ w = [p \in Callers |-> ZeroWindow]
    /\ lw = [p \in Callers |-> ZeroSize]
    /\ log = [p \in Callers |-> <<>>]
    /\ nlog = [p \in Callers |-> <<>>]
    /\ clog = [p \in Callers |-> <<>>]
    /\ ret = [p \in Callers |-> NoRet]
    /\ resp = [p \in Callers |-> NoResp]
    /\ sub = [p \in Callers |-> NoSub]
    /\ leaked = [p \in Callers |-> 0]
    /\ page = [p \in Callers |-> "idle"]
    /\ missed = [p \in Callers |-> FALSE]
    /\ nextPid = 1
    /\ killed = {}
    /\ cancelled = [p \in Callers |-> FALSE]
    /\ held = [p \in Callers |-> FALSE]

\* the method op of caller p returns err (and, for Evaluate, val)
Return(p, op, err, val) ==
    /\ pc' = [pc EXCEPT ![p] = "idle"]
    /\ ret' = [ret EXCEPT ![p] = [op |-> op, err |-> err, val |-> val]]

\* a Browser holds a session from the return of a Start that returned nil until the
\* return of a Close that returned nil; a Start that had reserved the port and then
\* failed leaves none
HeldAfter ==
    [p \in Callers |->
        IF pc[p] # "idle" /\ pc'[p] = "idle"
        THEN CASE ret'[p].op = "Start" ->
                    IF ret'[p].err = "nil" THEN TRUE
                    ELSE IF ret'[p].err = "port is reserved" THEN held[p]
                    ELSE FALSE
               [] ret'[p].op = "Close" ->
                    IF ret'[p].err = "nil" THEN FALSE ELSE held[p]
               [] OTHER -> held[p]
        ELSE held[p]]

\* a statement of Start fails: Start returns its error
StartFail(p, name, err) ==
    /\ log' = [log EXCEPT ![p] = Append(@, Step(name, FALSE))]
    /\ Return(p, "Start", err, NoStr)

\* a statement of Start succeeds: Start goes on with the next one
StartOk(p, name, s) ==
    /\ log' = [log EXCEPT ![p] = Append(@, Step(name, TRUE))]
    /\ IF StartNext(s) = "idle"
       THEN Return(p, "Start", "nil", NoStr)
       ELSE /\ pc' = [pc EXCEPT ![p] = StartNext(s)]
            /\ ret' = ret

\* ------------------------------------------------------------------ Start
StartCall(p) ==
    /\ pc[p] = "idle"
    /\ starts[p] < MaxStarts
    /\ starts' = [starts EXCEPT ![p] = @ + 1]
    /\ pc' = [pc EXCEPT ![p] = StartNext("s_entry")]
    /\ log' = [log EXCEPT ![p] = <<>>]
    /\ ret' = [ret EXCEPT ![p] = NoRet]
    /\ UNCHANGED <<gvars, cancelled, _port, caller, navs, seen, myport, pid, conn, c, w, lw, nlog, clog,
                   resp, sub, leaked, page, missed, nextPid, killed>>
    /\ held' = HeldAfter

\* line 93: the test _port == 0 reads the package variable
StartCheck(p) ==
    /\ pc[p] = "s_check"
    /\ seen' = [seen EXCEPT ![p] = _port]
    /\ pc' = [pc EXCEPT ![p] = StartNext("s_check")]
    /\ UNCHANGED <<gvars, cancelled, _port, caller, starts, navs, myport, pid, conn, c, w, lw, log, nlog,
                   clog, ret, resp, sub, leaked, page, missed, nextPid, killed>>
    /\ held' = HeldAfter

\* lines 93-99: the branch taken on the value read, and the port flag
StartReserve(p) ==
    /\ pc[p] = "s_reserve"
    /\ IF seen[p] = 0
       THEN /\ _port' = ReservedPort
            /\ myport' = [myport EXCEPT ![p] = ReservedPort]
            /\ StartOk(p, "reserve", "s_reserve")
       ELSE /\ StartFail(p, "reserve", "port is reserved")
            /\ UNCHANGED <<_port, myport>>
    /\ UNCHANGED <<gvars, cancelled, caller, starts, navs, seen, pid, conn, c, w, lw, nlog, clog, resp,
                   sub, leaked, page, missed, nextPid, killed>>
    /\ held' = HeldAfter

\* lines 105-112: cmd.Start() and the recording of the pid
StartLaunch(p) ==
    /\ pc[p] = "s_launch"
    /\ \E ok \in BOOLEAN :
         IF ok
         THEN /\ pid' = [pid EXCEPT ![p] = nextPid]
              /\ nextPid' = nextPid + 1
              /\ StartOk(p, "launch", "s_launch")
         ELSE /\ StartFail(p, "launch", "launch")
              /\ UNCHANGED <<pid, nextPid>>
    /\ UNCHANGED <<gvars, cancelled, _port, caller, starts, navs, seen, myport, conn, c, w, lw, nlog, clog,
                   resp, sub, leaked, page, missed, killed>>
    /\ held' = HeldAfter

\* lines 115-130: devt.Get, rpcc.DialContext, cdp.NewClient
StartConnect(p) ==
    /\ pc[p] = "s_connect"
    /\ \E r \in {"ok", "get", "dial"} :
         /\ r = "ok" => ~cancelled[p]
         /\ CASE r = "ok" ->
                   /\ conn' = [conn EXCEPT ![p] = "open"]
                   /\ c' = [c EXCEPT ![p] = TRUE]
                   /\ StartOk(p, "connect", "s_connect")
              [] r = "get" ->
                   /\ StartFail(p, "connect", "devtool get")
                   /\ UNCHANGED <<conn, c>>
              [] OTHER ->
                   /\ conn' = [conn EXCEPT ![p] = "nil"]
                   /\ StartFail(p, "connect", "dial")
                   /\ UNCHANGED c
    /\ UNCHANGED <<gvars, cancelled, _port, caller, starts, navs, seen, myport, pid, w, lw, nlog, clog,
                   resp, sub, leaked, page, missed, nextPid, killed>>
    /\ held' = HeldAfter

\* lines 133-136: Page.Enable
StartEnablePage(p) ==
    /\ pc[p] = "s_page"
    /\ \E ok \in BOOLEAN :
         /\ ok => Usable(p)
         /\ IF ok THEN StartOk(p, "enablePage", "s_page")
            ELSE StartFail(p, "enablePage", "page enable")
    /\ UNCHANGED <<gvars, cancelled, _port, caller, starts, navs, seen, myport, pid, conn, c, w, lw, nlog,
                   clog, resp, sub, leaked, page, missed, nextPid, killed>>
    /\ held' = HeldAfter

\* lines 139-142: Runtime.Enable
StartEnableRuntime(p) ==
    /\ pc[p] = "s_runtime"
    /\ \E ok \in BOOLEAN :
         /\ ok => Usable(p)
         /\ IF ok THEN StartOk(p, "enableRuntime", "s_runtime")
            ELSE StartFail(p, "enableRuntime", "runtime enable")
    /\ UNCHANGED <<gvars, cancelled, _port, caller, starts, navs, seen, myport, pid, conn, c, w, lw, nlog,
                   clog, resp, sub, leaked, page, missed, nextPid, killed>>
    /\ held' = HeldAfter

\* line 145: the call b.Navigate(ctx, "about:blank")
StartNavigate(p) ==
    /\ pc[p] = "s_nav"
    /\ pc' = [pc EXCEPT ![p] = NavNext("n_entry")]
    /\ caller' = [caller EXCEPT ![p] = "start"]
    /\ nlog' = [nlog EXCEPT ![p] = <<>>]
    /\ sub' = [sub EXCEPT ![p] = NoSub]
    /\ UNCHANGED <<gvars, cancelled, _port, starts, navs, seen, myport, pid, conn, c, w, lw, log, clog,
                   ret, resp, leaked, page, missed, nextPid, killed>>
    /\ held' = HeldAfter

\* setupCoords returned err to line 150 of Start
StartSetupReturned(p, err) ==
    /\ log' = [log EXCEPT ![p] = Append(@, Step("calibrate", err = "nil"))]
    /\ Return(p, "Start", StartAfterSetup(err), NoStr)

\* lines 217-220: getWindowSize and its error check
SetupWindow(p) ==
    /\ pc[p] = "s_cal_w"
    /\ \E r \in RepliesTo(p) :
         LET g == getSize(r) IN
         /\ resp' = [resp EXCEPT ![p] = r]
         /\ IF g.err # "nil"
            THEN /\ StartSetupReturned(p, g.err)
                 /\ lw' = lw
            ELSE /\ lw' = [lw EXCEPT ![p] = g.m]
                 /\ pc' = [pc EXCEPT ![p] = StartNext("s_cal_w")]
                 /\ UNCHANGED <<log, ret>>
    /\ UNCHANGED <<gvars, cancelled, _port, caller, starts, navs, seen, myport, pid, conn, c, w, nlog, clog,
                   sub, leaked, page, missed, nextPid, killed>>
    /\ held' = HeldAfter

\* lines 222-232: getScreenSize, its error check, and the four assignments
SetupScreen(p) ==
    /\ pc[p] = "s_cal_s"
    /\ \E r \in RepliesTo(p) :
         LET g == getSize(r) IN
         /\ resp' = [resp EXCEPT ![p] = r]
         /\ IF g.err # "nil"
            THEN /\ StartSetupReturned(p, g.err)
                 /\ w' = w
            ELSE /\ w' = [w EXCEPT ![p] = setupCoords(lw[p], g.m)]
                 /\ StartSetupReturned(p, "nil")
    /\ UNCHANGED <<gvars, cancelled, _port, caller, starts, navs, seen, myport, pid, conn, c, lw, nlog, clog,
                   sub, leaked, page, missed, nextPid, killed>>
    /\ held' = HeldAfter

\* --------------------------------------------------------------- Navigate
\* the caller's rule: Navigate and Evaluate are called on a Browser whose last Start
\* ran to its end and returned nil
Ready(p) == c[p] /\ Len(log[p]) = Len(StartOrder)

\* Navigate returns err: to line 145 of Start, or to the caller
NavReturnRecalibrates(p, err) ==
    IF caller[p] = "start"
    THEN IF err = "nil"
         THEN StartOk(p, "navigate", "s_nav")
         ELSE StartFail(p, "navigate", err)
    ELSE IF err = "nil"
         THEN /\ pc' = [pc EXCEPT ![p] = "s_cal_w"]
              /\ UNCHANGED <<log, ret>>
         ELSE /\ Return(p, "Navigate", err, NoStr)
              /\ log' = log
NavReturn(p, err) ==
    IF caller[p] = "start"
    THEN IF err = "nil"
         THEN StartOk(p, "navigate", "s_nav")
         ELSE StartFail(p, "navigate", err)
    ELSE /\ Return(p, "Navigate", err, NoStr)
         /\ log' = log

\* a statement of Navigate succeeds: Navigate goes on with the next one
NavOk(p, s) ==
    IF NavNext(s) = "idle"
    THEN NavReturn(p, "nil")
    ELSE /\ pc' = [pc EXCEPT ![p] = NavNext(s)]
         /\ UNCHANGED <<log, ret>>

NavigateCall(p) ==
    /\ pc[p] = "idle"
    /\ Ready(p)
    /\ navs[p] < MaxNavs
    /\ navs' = [navs EXCEPT ![p] = @ + 1]
    /\ pc' = [pc EXCEPT ![p] = NavNext("n_entry")]
    /\ caller' = [caller EXCEPT ![p] = "user"]
    /\ nlog' = [nlog EXCEPT ![p] = <<>>]
    /\ sub' = [sub EXCEPT ![p] = NoSub]
    /\ ret' = [ret EXCEPT ![p] = NoRet]
    /\ UNCHANGED <<gvars, cancelled, _port, starts, seen, myport, pid, conn, c, w, lw, log, clog, resp,
                   leaked, page, missed, nextPid, killed>>
    /\ held' = HeldAfter

\* lines 158-161: Page.LoadEventFired opens the load-event client
NavSubscribe(p) ==
    /\ pc[p] = "n_sub"
    /\ \E ok \in BOOLEAN :
         /\ ok => Usable(p)
         /\ nlog' = [nlog EXCEPT ![p] = Append(@, Step("subscribe", ok))]
         /\ IF ok
            THEN /\ sub' = [sub EXCEPT ![p] = [open |-> TRUE, buf |-> 0]]
                 /\ NavOk(p, "n_sub")
            ELSE /\ NavReturn(p, "subscribe")
                 /\ sub' = sub
    /\ UNCHANGED <<gvars, cancelled, _port, caller, starts, navs, seen, myport, pid, conn, c, w, lw, clog,
                   resp, leaked, page, missed, nextPid, killed>>
    /\ held' = HeldAfter

\* lines 163-166: Page.Navigate; on its error Navigate returns, its client left open
NavCommand(p) ==
    /\ pc[p] = "n_cmd"
    /\ \E ok \in BOOLEAN :
         /\ ok => Usable(p)
         /\ nlog' = [nlog EXCEPT ![p] = Append(@, Step("command", ok))]
         /\ IF ok
            THEN /\ page' = [page EXCEPT ![p] = "loading"]
                 /\ NavOk(p, "n_cmd")
                 /\ leaked' = leaked
            ELSE /\ NavReturn(p, "navigate")
                 /\ leaked' = [leaked EXCEPT ![p] = IF sub[p].open THEN @ + 1 ELSE @]
                 /\ page' = page
    /\ UNCHANGED <<gvars, cancelled, _port, caller, starts, navs, seen, myport, pid, conn, c, w, lw, clog,
                   resp, sub, missed, nextPid, killed>>
    /\ held' = HeldAfter

\* lines 168-174: Recv blocks until an event is there or the stream is closed (by the
\* connection going away, or by the ctx it was opened with being done); after an event
\* the client is closed and Navigate returns nil
NavRecv(p) ==
    /\ pc[p] = "n_recv"
    /\ sub[p].open
    /\ \/ /\ sub[p].buf > 0
          /\ nlog' = [nlog EXCEPT ![p] = Append(Append(@, Step("recv", TRUE)),
                                                 Step("close", TRUE))]
          /\ sub' = [sub EXCEPT ![p] = NoSub]
          /\ NavOk(p, "n_recv")
          /\ leaked' = leaked
       \/ /\ (sub[p].buf = 0 /\ conn[p] # "open") \/ RecvCtx(p)
          /\ nlog' = [nlog EXCEPT ![p] = Append(@, Step("recv", FALSE))]
          /\ leaked' = [leaked EXCEPT ![p] = @ + 1]
          /\ NavReturn(p, "recv")
          /\ sub' = sub
    /\ UNCHANGED <<gvars, cancelled, _port, caller, starts, navs, seen, myport, pid, conn, c, w, lw, clog,
                   resp, page, missed, nextPid, killed>>
    /\ held' = HeldAfter

\* the browser: the page that was told to navigate finishes loading. The event goes
\* to the open client; it is lost to a Navigate that sent the command and has none.
LoadEvent(p) ==
    /\ page[p] = "loading"
    /\ page' = [page EXCEPT ![p] = "idle"]
    /\ IF conn[p] = "open" /\ sub[p].open /\ ~RecvCtx(p)
       THEN /\ sub' = [sub EXCEPT ![p].buf = @ + 1]
            /\ missed' = missed
       ELSE /\ sub' = sub
            /\ missed' = [missed EXCEPT ![p] =
                            @ \/ (conn[p] = "open" /\ ~sub[p].open /\ pc[p] \in NavPcs
                                  /\ CommandSent(nlog[p]))]
    /\ UNCHANGED <<gvars, cancelled, _port, pc, caller, starts, navs, seen, myport, pid, conn, c, w, lw, log,
                   nlog, clog, ret, resp, leaked, nextPid, killed>>
    /\ held' = HeldAfter

\* the browser or the network: the connection goes away
ConnDrop(p) ==
    /\ conn[p] = "open"
    /\ conn' = [conn EXCEPT ![p] = "closed"]
    /\ UNCHANGED <<gvars, cancelled, _port, pc, caller, starts, navs, seen, myport, pid, c, w, lw, log, nlog,
                   clog, ret, resp, sub, leaked, page, missed, nextPid, killed>>
    /\ held' = HeldAfter

\* --------------------------------------------------------------- Evaluate
\* lines 178-193, on the transport's reply r
EvaluateCall(p) ==
    /\ pc[p] = "idle"
    /\ Ready(p)
    /\ \E r \in RepliesTo(p) :
         LET e == Evaluate(r) IN
         /\ resp' = [resp EXCEPT ![p] = r]
         /\ Return(p, "Evaluate", e.err, e.s)
    /\ UNCHANGED <<gvars, cancelled, _port, caller, starts, navs, seen, myport, pid, conn, c, w, lw, log,
                   nlog, clog, sub, leaked, page, missed, nextPid, killed>>
    /\ held' = HeldAfter

\* ----------------------------------------------------------- Select, Click
\* Select, lines 235-247: DOM.GetDocument, then DOM.QuerySelector; the call named by
\* fail returns an error, which Select returns
SelectFails == {"none", "doc", "query"}
Select(fail) ==
    CASE fail = "doc"   -> "get document"
      [] fail = "query" -> "query selector"
      [] OTHER          -> "nil"

SelectCall(p) ==
    /\ pc[p] = "idle"
    /\ Ready(p)
    /\ \E fail \in SelectFails :
         /\ ~Usable(p) => fail = "doc"
         /\ Return(p, "Select", Select(fail), NoStr)
    /\ UNCHANGED <<gvars, cancelled, _port, caller, starts, navs, seen, myport, pid, conn, c, w,
                   lw, log, nlog, clog, resp, sub, leaked, page, missed, nextPid, killed>>
    /\ held' = HeldAfter

\* Click, lines 296-324, on the element whose border box is rect
ClickCall(p) ==
    /\ pc[p] = "idle"
    /\ Ready(p)
    /\ \E fail \in ClickFails :
         /\ ~Usable(p) => fail = "scroll"
         /\ Return(p, "Click", Click(w[p], BorderQuad(rect), fail).err, NoStr)
    /\ UNCHANGED <<gvars, cancelled, _port, caller, starts, navs, seen, myport, pid, conn, c, w,
                   lw, log, nlog, clog, resp, sub, leaked, page, missed, nextPid, killed>>
    /\ held' = HeldAfter

\* the caller, or a deadline: the ctx the caller passes to the methods is done
CtxCancel(p) ==
    /\ ~cancelled[p]
    /\ cancelled' = [cancelled EXCEPT ![p] = TRUE]
    /\ UNCHANGED <<gvars, _port, pc, caller, starts, navs, seen, myport, pid, conn, c, w, lw,
                   log, nlog, clog, ret, resp, sub, leaked, page, missed, nextPid, killed,
                   held>>

\* ------------------------------------------------------------------ Close
\* a statement of Close succeeds: Close goes on with the next one
CloseOk(p, s) ==
    IF CloseNext(s) = "idle"
    THEN Return(p, "Close", "nil", NoStr)
    ELSE /\ pc' = [pc EXCEPT ![p] = CloseNext(s)]
         /\ ret' = ret

CloseCall(p) ==
    /\ pc[p] = "idle"
    /\ conn[p] # "nil"
    /\ pc' = [pc EXCEPT ![p] = CloseNext("c_entry")]
    /\ clog' = [clog EXCEPT ![p] = <<>>]
    /\ ret' = [ret EXCEPT ![p] = NoRet]
    /\ UNCHANGED <<gvars, cancelled, _port, caller, starts, navs, seen, myport, pid, conn, c, w, lw, log,
                   nlog, resp, sub, leaked, page, missed, nextPid, killed>>
    /\ held' = HeldAfter

\* lines 59-62: b.conn.Close(); on its error Close returns
CloseConn(p) ==
    /\ pc[p] = "c_conn"
    /\ \E ok \in BOOLEAN :
         /\ ok => conn[p] = "open"
         /\ clog' = [clog EXCEPT ![p] = Append(@, Step("conn", ok))]
         /\ IF ok
            THEN CloseOk(p, "c_conn")
            ELSE Return(p, "Close", "close connection", NoStr)
    /\ conn' = [conn EXCEPT ![p] = "closed"]
    /\ UNCHANGED <<gvars, cancelled, _port, caller, starts, navs, seen, myport, pid, c, w, lw, log, nlog,
                   resp, sub, leaked, page, missed, nextPid, killed>>
    /\ held' = HeldAfter

\* lines 65-71: kill -9 b.pid
CloseKill(p) ==
    /\ pc[p] = "c_kill"
    /\ \E ok \in BOOLEAN :
         /\ clog' = [clog EXCEPT ![p] = Append(@, Step("kill", ok))]
         /\ IF ok
            THEN CloseOk(p, "c_kill")
            ELSE Return(p, "Close", "kill chrome process", NoStr)
    /\ killed' = killed \cup {pid[p]}
    /\ UNCHANGED <<gvars, cancelled, _port, caller, starts, navs, seen, myport, pid, conn, c, w, lw, log,
                   nlog, resp, sub, leaked, page, missed, nextPid>>
    /\ held' = HeldAfter

\* ------------------------------------------------------------------- Spec
GeoZero ==
    /\ b = ZeroWindow
    /\ rect = [X |-> 0, Y |-> 0, Width |-> 0, Height |-> 0]
    /\ coords = NoCoords
    /\ fxy = [x |-> 0, y |-> 0]
    /\ gstep = "new"
    /\ meas = [w |-> ZeroSize, s |-> ZeroSize]
    /\ dispatched = <<>>
    /\ cerr = "none"
BinZero ==
    /\ goos = "linux"
    /\ env = Unset
    /\ chromeBinary = ""
    /\ bstep = "new"
GInit == GeoZero /\ BinZero

Init == SInit /\ GInit

\* the statements of Start, with those of the Navigate it calls and the browser's part
StartStep(p) ==
    \/ StartCheck(p)
    \/ StartReserve(p)
    \/ StartLaunch(p)
    \/ StartConnect(p)
    \/ StartEnablePage(p)
    \/ StartEnableRuntime(p)
    \/ StartNavigate(p)
    \/ SetupWindow(p)
    \/ SetupScreen(p)
    \/ NavSubscribe(p)
    \/ NavCommand(p)
    \/ NavRecv(p)
    \/ LoadEvent(p)
    \/ ConnDrop(p)

\* one caller uses its Browser, one method at a time
Owner == 1
Next ==
    \/ StartCall(Owner)
    \/ StartStep(Owner)
    \/ NavigateCall(Owner)
    \/ EvaluateCall(Owner)
    \/ SelectCall(Owner)
    \/ ClickCall(Owner)
    \/ CloseCall(Owner)
    \/ CloseConn(Owner)
    \/ CloseKill(Owner)
    \/ CtxCancel(Owner)

Spec == Init /\ [][Next]_vars

\* two callers, each with a Browser of its own, call Start concurrently
NextRace == \E p \in Callers : StartCall(p) \/ StartStep(p)

SpecRace == Init /\ [][NextRace]_vars

\* ---------------------------------------------------------------- SpecGeo
\* a new Browser, a browser that reports a window inner size and a screen size, and
\* a rectangle it reports for some element
GeoInit ==
    /\ SInit
    /\ BinZero
    /\ b = ZeroWindow
    /\ meas \in [w : GeoSizes, s : GeoScreens]
    /\ rect \in Rects
    /\ coords = NoCoords
    /\ fxy = [x |-> 0, y |-> 0]
    /\ gstep = "new"
    /\ dispatched = <<>>
    /\ cerr = "none"

\* startChrome, lines 132-154: both sizes are measured and the bounds stored
Calibrate ==
    /\ gstep = "new"
    /\ b' = setupCoords(meas.w, meas.s)
    /\ gstep' = "init"
    /\ UNCHANGED <<svars, bvars, rect, coords, fxy, meas, dispatched, cerr>>

GetIntCoordinatesCall ==
    /\ gstep = "init"
    /\ coords' = GetIntCoordinates(b, rect)
    /\ gstep' = "mapped"
    /\ UNCHANGED <<svars, bvars, b, rect, fxy, meas, dispatched, cerr>>

GetCoordsCall ==
    /\ gstep = "init"
    /\ fxy' = getCoords(b, rect)
    /\ gstep' = "centred"
    /\ UNCHANGED <<svars, bvars, b, rect, coords, meas, dispatched, cerr>>

\* Click on an element whose border box is rect; each of its four calls may fail
GeoClickCall ==
    /\ gstep = "init"
    /\ \E fail \in ClickFails :
         LET k == Click(b, BorderQuad(rect), fail) IN
         /\ dispatched' = k.events
         /\ cerr' = k.err
    /\ gstep' = "clicked"
    /\ UNCHANGED <<svars, bvars, b, rect, coords, fxy, meas>>

NextGeo == Calibrate \/ GetIntCoordinatesCall \/ GetCoordsCall \/ GeoClickCall

SpecGeo == GeoInit /\ [][NextGeo]_vars

\* ---------------------------------------------------------------- SpecBin
\* a process on some platform, with CHROME_BINARY in some state, calls Start
BinInit ==
    /\ SInit
    /\ GeoZero
    /\ goos \in GOOS
    /\ env \in Envs
    /\ chromeBinary = ""
    /\ bstep = "new"

\* lines 77-87 of Start
ResolveCall ==
    /\ bstep = "new"
    /\ chromeBinary' = ResolveBinary(goos, env)
    /\ bstep' = "resolved"
    /\ UNCHANGED <<svars, b, rect, coords, fxy, gstep, meas, dispatched, cerr, goos, env>>

NextBin == ResolveCall

SpecBin == BinInit /\ [][NextBin]_vars

\* ================================================================= claims
\* the largest whole number not above n/Den, and n/Den with its fraction dropped
Floor(n) == n \div Den
TruncZero(n) == IF n >= 0 THEN Floor(n) ELSE -Floor(-n)
\* the mapped point of rect under the bounds b, as numerators over Den
MappedX == rect.X + Half(rect.Width)
MappedY == rect.Y + Half(rect.Height) + b.Top
Whole(n) == n % Den = 0

\* C7 as stated: a mapped point with y outside [Top, Bottom] or x outside
\* [Left, Right] makes GetIntCoordinates fail with an error naming a violated axis,
\* and every point returned lies within [Left, Right] x [Top, Bottom].
C7_OutOfBoundsFails ==
    gstep = "mapped" =>
        LET yOut == MappedY < b.Top \/ MappedY > b.Bottom
            xOut == MappedX < b.Left \/ MappedX > b.Right
        IN  /\ (yOut \/ xOut) => coords.err \in {ErrX, ErrY}
            /\ coords.err = ErrY => yOut
            /\ coords.err = ErrX => xOut
            /\ coords.err = "nil" =>
                 /\ b.Left <= coords.x * Den /\ coords.x * Den <= b.Right
                 /\ b.Top <= coords.y * Den /\ coords.y * Den <= b.Bottom

\* C7 amended: the comparison is made on the mapped point and the bounds after each
\* has lost its fraction (toward zero). A truncated point with y outside
\* [trunc Top, trunc Bottom] fails with the y error, otherwise one with x outside
\* [trunc Left, trunc Right] fails with the x error, and every point returned lies
\* within the truncated bounds; when the mapped point and the bounds are whole
\* numbers this is the claim as stated.
C7_TruncatedOutOfBoundsFails ==
    gstep = "mapped" =>
        LET ty == TruncZero(MappedY)
            tx == TruncZero(MappedX)
            yOut == ty < TruncZero(b.Top) \/ ty > TruncZero(b.Bottom)
            xOut == tx < TruncZero(b.Left) \/ tx > TruncZero(b.Right)
        IN  /\ yOut => coords.err = ErrY
            /\ (~yOut /\ xOut) => coords.err = ErrX
            /\ coords.err = "nil" =>
                 /\ coords.x = tx /\ coords.y = ty
                 /\ TruncZero(b.Left) <= coords.x /\ coords.x <= TruncZero(b.Right)
                 /\ TruncZero(b.Top) <= coords.y /\ coords.y <= TruncZero(b.Bottom)
            /\ (Whole(MappedX) /\ Whole(MappedY) /\ Whole(b.Top) /\ Whole(b.Bottom)
                  /\ Whole(b.Right))
                 => ((MappedY < b.Top \/ MappedY > b.Bottom \/ MappedX < b.Left
                        \/ MappedX > b.Right) <=> coords.err # "nil")

\* C7 witness: a mapping was refused for a truncated y above the truncated Bottom
\* although the bounds are fractional
C7_Witness ==
    /\ gstep = "mapped"
    /\ coords.err = ErrY
    /\ ~Whole(b.Bottom)
    /\ TruncZero(MappedY) > TruncZero(b.Bottom)

\* the rectangle's centre lies in the range C8 is about
CentreInRange ==
    /\ b.Top <= MappedY /\ MappedY <= b.Bottom
    /\ 0 <= MappedX /\ MappedX <= b.Right

\* Scenario A: screen 1920x1080, inner height 1000, rect {860, 10, 200, 50}
ScenarioA ==
    GetIntCoordinates(
        setupCoords([Width |-> 1920 * Den, Height |-> 1000 * Den],
                    [Width |-> 1920 * Den, Height |-> 1080 * Den]),
        [X |-> 860 * Den, Y |-> 10 * Den, Width |-> 200 * Den, Height |-> 50 * Den])

\* C8 as stated: for a centre in range the mapping succeeds and returns
\* (floor(x), floor(y + Deadzone)).
C8_ReturnsFloor ==
    (gstep = "mapped" /\ CentreInRange) =>
        coords = [x |-> Floor(MappedX), y |-> Floor(MappedY), err |-> "nil"]

\* C8 amended: for a centre in range the mapping succeeds and returns the mapped
\* point with its fractions dropped toward zero, (trunc(x), trunc(y + Deadzone)),
\* which is (floor(x), floor(y + Deadzone)) whenever y + Deadzone >= 0; Scenario A
\* gives (960, 115).
C8_ReturnsTruncated ==
    /\ ScenarioA = [x |-> 960, y |-> 115, err |-> "nil"]
    /\ (gstep = "mapped" /\ CentreInRange) =>
          /\ coords = [x |-> TruncZero(MappedX), y |-> TruncZero(MappedY), err |-> "nil"]
          /\ coords.x = Floor(MappedX)
          /\ MappedY >= 0 => coords.y = Floor(MappedY)

\* C8 witness: a fractional centre below the browser chrome was mapped
C8_Witness ==
    /\ gstep = "mapped"
    /\ CentreInRange
    /\ b.Top > 0
    /\ ~Whole(MappedX) /\ ~Whole(MappedY)
    /\ coords.err = "nil"

\* ------------------------------------------------------- lifecycle claims
AllOk(l) == \A i \in 1..Len(l) : l[i].ok
Returned(p, op) == pc[p] = "idle" /\ ret[p].op = op
\* the number of Start's steps that lie before the statement at pc; -1 outside Start
StepsBefore(p) ==
    CASE pc[p] \in {"s_check", "s_reserve"}       -> 0
      [] pc[p] = "s_launch"                       -> 1
      [] pc[p] = "s_connect"                      -> 2
      [] pc[p] = "s_page"                         -> 3
      [] pc[p] = "s_runtime"                      -> 4
      [] pc[p] = "s_nav"                          -> 5
      [] pc[p] \in NavPcs /\ caller[p] = "start"  -> 5
      [] pc[p] \in {"s_cal_w", "s_cal_s"}         -> 6
      [] OTHER                                    -> -1

\* C1 as stated: of two concurrent Start calls at most one passes the reservation
\* step, and no two Browsers ever hold the same port.
C1_ExclusiveReservation ==
    \A p, q \in Callers :
        p # q => ~(myport[p] # 0 /\ myport[p] = myport[q])

\* C2: the steps of Start are begun in the order reserve, launch, connect, enable
\* Page, enable Runtime, navigate, calibrate; a step is begun only after every
\* earlier one succeeded, and a Start that returns nil has begun all seven.
C2_StartOrder ==
    \A p \in Callers :
        LET l == log[p] IN
        /\ Len(l) <= Len(StartOrder)
        /\ \A i \in 1..Len(l) : l[i].step = StartOrder[i] /\ (i < Len(l) => l[i].ok)
        /\ StepsBefore(p) >= 0 => (Len(l) = StepsBefore(p) /\ AllOk(l))
        /\ (Returned(p, "Start") /\ ret[p].err = "nil") => Len(l) = Len(StartOrder)

\* C2 witness: a Start ran through all seven steps and returned nil
C2_Witness ==
    /\ Returned(Owner, "Start") /\ ret[Owner].err = "nil"
    /\ Len(log[Owner]) = Len(StartOrder) /\ AllOk(log[Owner])

\* C3 as stated: Start returns nil only if every step, calibration included,
\* succeeded; if any step failed Start returns an error.
C3_SuccessOnlyIfAllSucceeded ==
    \A p \in Callers :
        Returned(p, "Start") =>
            (ret[p].err = "nil" <=> (Len(log[p]) = Len(StartOrder) /\ AllOk(log[p])))

\* C4: in every Navigate the load-event client is open before the command is sent
\* and stays open while Navigate waits, so no load event that follows the command
\* is lost.
C4_SubscribedBeforeCommand ==
    \A p \in Callers :
        /\ ~missed[p]
        /\ \A i \in 1..Len(nlog[p]) :
              nlog[p][i].step = "command" =>
                  \E j \in 1..(i - 1) : nlog[p][j] = Step("subscribe", TRUE)
        /\ (pc[p] \in NavPcs /\ CommandSent(nlog[p])) => sub[p].open

\* C4 witness: the page finished loading while Navigate was waiting, and the event
\* sits in its client
C4_Witness ==
    /\ pc[Owner] = "n_recv" /\ caller[Owner] = "user"
    /\ page[Owner] = "idle"
    /\ sub[Owner].open /\ sub[Owner].buf = 1

NavigateComplete ==
    <<Step("subscribe", TRUE), Step("command", TRUE), Step("recv", TRUE),
      Step("close", TRUE)>>

\* C5: Navigate returns nil only after the command was sent and then one load event
\* was received on its client; when the command is rejected or the stream closes
\* before an event, it returns an error.
C5_NavigateSuccess ==
    \A p \in Callers :
        Returned(p, "Navigate") =>
            /\ ret[p].err = "nil" => nlog[p] = NavigateComplete
            /\ ~AllOk(nlog[p]) => ret[p].err # "nil"
            /\ ret[p].err = "nil" <=> AllOk(nlog[p])

\* C5 witness: a Navigate sent its command, received one load event and returned nil
C5_Witness ==
    /\ Returned(Owner, "Navigate")
    /\ ret[Owner].err = "nil"
    /\ nlog[Owner] = NavigateComplete

\* C6 as stated: Close attempts the transport close and the kill in every
\* execution, and its error reports every step that failed.
C6_CloseAttemptsBoth ==
    \A p \in Callers :
        Returned(p, "Close") =>
            /\ \E i \in 1..Len(clog[p]) : clog[p][i].step = "conn"
            /\ \E i \in 1..Len(clog[p]) : clog[p][i].step = "kill"
            /\ ret[p].err = "nil" <=> AllOk(clog[p])

\* the size a reply carries, as getWindowSize / getScreenSize decode it
Measured(r) == [Width |-> r.s.Width, Height |-> r.s.Height]
CalibrationDone(p) ==
    /\ Returned(p, "Start")
    /\ Len(log[p]) = Len(StartOrder)
    /\ log[p][Len(StartOrder)].ok

\* C9: after a calibration that measured window inner size lw and screen size s the
\* bounds are Top = s.Height - lw.Height, Bottom = s.Height, Left = 0,
\* Right = s.Width; a calibration whose evaluation failed leaves the bounds as
\* they were.
C9_CalibratedBounds ==
    /\ [](\A p \in Callers :
            CalibrationDone(p) =>
                LET s == Measured(resp[p]) IN
                w[p] = [Top |-> s.Height - lw[p].Height, Bottom |-> s.Height,
                        Left |-> 0, Right |-> s.Width])
    /\ [][\A p \in Callers :
            (pc[p] \in {"s_cal_w", "s_cal_s"} /\ pc'[p] = "idle" /\ ~CalibrationDone(p)')
                => w'[p] = w[p]]_vars

\* C9 witness: a calibration stored bounds with a browser chrome of positive height
C9_Witness ==
    /\ CalibrationDone(Owner)
    /\ Measured(resp[Owner]).Height > lw[Owner].Height
    /\ w[Owner].Top > 0
    /\ w[Owner].Right # lw[Owner].Width

\* C10 as stated: Evaluate returns an error whenever the remote execution threw,
\* the transport call failed, or the value returned is not a string.
C10_EvaluateErrors ==
    \A p \in Callers :
        Returned(p, "Evaluate") =>
            ((resp[p].terr \/ resp[p].exc \/ resp[p].t # "string") => ret[p].err # "nil")

\* ------------------------------------------------------------ C11 .. C20
\* Close has closed the connection of the Browser, or the connection went away
TransportClosed(p) == conn[p] = "closed"
\* the step is an Evaluate of caller p
EvaluateStep(p) ==
    /\ pc[p] = "idle" /\ pc'[p] = "idle"
    /\ ret'[p].op = "Evaluate"
    /\ <<ret'[p], resp'[p]>> # <<ret[p], resp[p]>>

\* C11: once the connection of a Browser is closed it stays closed; from then on a
\* Navigate that runs its first statement returns at that statement with an error,
\* every Evaluate returns an error, and a Navigate that is under way is never
\* waiting: the statement it is at can be taken.
C11_ClosedTransportFails ==
    /\ [](\A p \in Callers :
            (TransportClosed(p) /\ pc[p] \in NavPcs) =>
                ENABLED (NavSubscribe(p) \/ NavCommand(p) \/ NavRecv(p)))
    /\ [][\A p \in Callers :
            TransportClosed(p) =>
                /\ TransportClosed(p)'
                /\ (pc[p] = "n_sub" /\ pc'[p] # "n_sub") =>
                       (pc'[p] = "idle" /\ ret'[p].err # "nil")
                /\ EvaluateStep(p) => ret'[p].err # "nil"]_vars
\* Close closed the connection, and the Navigate called after it returned an error at
\* its first statement
C11_Witness ==
    \E p \in Callers :
        /\ TransportClosed(p)
        /\ Len(clog[p]) > 0 /\ clog[p][1] = Step("conn", TRUE)
        /\ Returned(p, "Navigate")
        /\ nlog[p] = <<Step("subscribe", FALSE)>>
        /\ ret[p].err # "nil"

\* ---------------------------------------------------------------- SpecLive
\* the goroutine that called a method keeps running: the statement the method is at
\* is executed once it can be
Running(p) ==
    \/ StartCheck(p) \/ StartReserve(p) \/ StartLaunch(p) \/ StartConnect(p)
    \/ StartEnablePage(p) \/ StartEnableRuntime(p) \/ StartNavigate(p)
    \/ SetupWindow(p) \/ SetupScreen(p)
    \/ NavSubscribe(p) \/ NavCommand(p) \/ NavRecv(p)

\* one caller runs Start and Navigate, and its ctx may be done at any moment
NextLive ==
    \/ StartCall(Owner)
    \/ StartStep(Owner)
    \/ NavigateCall(Owner)
    \/ CtxCancel(Owner)

SpecLive == Init /\ [][NextLive]_vars /\ WF_vars(Running(Owner))

\* ctx is done while Start is at the connect (the 2 s sleep, devt.Get, the dial) or at
\* a domain's Enable, or while Navigate waits in Recv with no event there
CtxBlocked(p) ==
    /\ cancelled[p]
    /\ \/ pc[p] \in {"s_connect", "s_page", "s_runtime"}
       \/ pc[p] = "n_recv" /\ sub[p].buf = 0
\* Navigate waits in Recv: its client is open, on an open connection, with no event
WaitingForLoad(p) ==
    pc[p] = "n_recv" /\ sub[p].open /\ sub[p].buf = 0 /\ conn[p] = "open"

\* C12: when ctx is done while Start is at the connect or a domain's Enable, or while
\* Navigate waits for the load event, the method eventually returns an error; with
\* ctx not done, a Navigate that waits for the load event cannot go on.
C12_CancelUnblocks ==
    /\ \A p \in Callers :
          CtxBlocked(p) ~>
              (pc[p] = "idle" /\ ret[p].op \in {"Start", "Navigate"} /\ ret[p].err # "nil")
    /\ [](\A p \in Callers :
            (WaitingForLoad(p) /\ ~cancelled[p]) => ~ENABLED NavRecv(p))
\* ctx was done while Navigate waited on an open connection, and Navigate returned the
\* error of Recv
C12_Witness ==
    \E p \in Callers :
        /\ cancelled[p] /\ conn[p] = "open"
        /\ Returned(p, "Navigate")
        /\ nlog[p] = <<Step("subscribe", TRUE), Step("command", TRUE), Step("recv", FALSE)>>
        /\ ret[p].err # "nil"

\* C13: the binary Start resolves is the value of CHROME_BINARY whenever that is set
\* to a non-empty value, on every platform; when it is unset or empty the binary is
\* the platform's default: the macOS application path on darwin, google-chrome
\* elsewhere.
C13_OverrideWins ==
    bstep = "resolved" =>
        IF env.set /\ env.val # ""
        THEN chromeBinary = env.val
        ELSE chromeBinary = (IF goos = "darwin" THEN MacChrome ELSE DefaultChrome)
\* on macOS, with CHROME_BINARY set, the override was resolved and not the default
C13_Witness ==
    /\ bstep = "resolved"
    /\ goos = "darwin"
    /\ env = [set |-> TRUE, val |-> "chromium"]
    /\ chromeBinary = "chromium"

\* C14: the port is reserved only while some Browser holds a session: when no Start is
\* under way and no Browser holds one (every Start that reserved the port has failed
\* or been followed by a completed Close), _port is 0 again, and a Start returns
\* "port is reserved" only while some Browser holds a session.
C14_PortReleased ==
    /\ (\A q \in Callers : pc[q] = "idle" /\ ~held[q]) => _port = 0
    /\ \A p \in Callers :
          (Returned(p, "Start") /\ ret[p].err = "port is reserved") =>
              \E q \in Callers : held[q]

\* C15: every mouse event Click hands to Input.DispatchMouseEvent lies within the
\* calibrated bounds: Left <= x <= Right and Top <= y <= Bottom.
C15_DispatchedWithinBounds ==
    \A i \in 1..Len(dispatched) :
        /\ b.Left <= dispatched[i].x /\ dispatched[i].x <= b.Right
        /\ b.Top <= dispatched[i].y /\ dispatched[i].y <= b.Bottom

\* the load-event client Navigate opened is still open, on a connection that is open
\* and with a ctx that is not done (nothing but its Close will close it)
StillOpen(p) == sub[p].open /\ conn[p] = "open" /\ ~cancelled[p]

\* C16: once Navigate has returned, on any path, the load-event client it opened is
\* closed: no client is left open outside a running Navigate.
C16_NoSubscriptionLeft ==
    \A p \in Callers : pc[p] \notin NavPcs => ~StillOpen(p)

\* the closing of the connection has been attempted in the current Close of caller p
ConnCloseAttempted(p) == \E i \in 1..Len(clog[p]) : clog[p][i].step = "conn"

\* C17: in Close the kill comes after the attempt to close the connection: in the log
\* of a Close every kill step has a conn step before it, and a step that sends a kill
\* is taken by a Close that has attempted the closing and sends it to the pid its
\* Browser recorded at launch, a process that was launched.
C17_CloseOrder ==
    /\ [](\A p \in Callers : \A i \in 1..Len(clog[p]) :
            clog[p][i].step = "kill" => \E j \in 1..(i - 1) : clog[p][j].step = "conn")
    /\ [](\A k \in killed : k \in 1..(nextPid - 1))
    /\ [][killed' # killed =>
            \E p \in Callers :
                /\ pc[p] = "c_kill"
                /\ ConnCloseAttempted(p)
                /\ pid[p] # 0
                /\ killed' = killed \cup {pid[p]}]_vars
\* a Close closed the connection, then killed the process its Start had launched
C17_Witness ==
    \E p \in Callers :
        /\ Returned(p, "Close")
        /\ clog[p] = <<Step("conn", TRUE), Step("kill", TRUE)>>
        /\ pid[p] # 0
        /\ killed = {pid[p]}

\* a statement of Start up to the reservation: the call, the test of _port, and the
\* return of "port is reserved"
ReservationStep(p) ==
    \/ pc[p] = "idle" /\ pc'[p] = "s_check"
    \/ pc[p] = "s_check" /\ pc'[p] = "s_reserve"
    \/ pc[p] = "s_reserve" /\ pc'[p] = "idle"

\* C18: a Start that returns "port is reserved" has run no step but the failed
\* reservation; its statements leave _port, the Browser's pid, connection, client
\* and bounds as they were and launch no process; and a launch is only ever run
\* after the reservation of the same Start succeeded.
C18_ReservedStartChangesNothing ==
    /\ [](\A p \in Callers :
            /\ (Returned(p, "Start") /\ ret[p].err = "port is reserved") =>
                   log[p] = <<Step("reserve", FALSE)>>
            /\ \A i \in 1..Len(log[p]) :
                   log[p][i].step = "launch" =>
                       \E j \in 1..(i - 1) : log[p][j] = Step("reserve", TRUE))
    /\ [][\A p \in Callers :
            ReservationStep(p) =>
                /\ _port' = _port /\ nextPid' = nextPid /\ killed' = killed
                /\ pid'[p] = pid[p] /\ conn'[p] = conn[p] /\ c'[p] = c[p]
                /\ w'[p] = w[p]]_vars
\* a Browser that was started and calibrated is started again: the second Start
\* returned "port is reserved" and the Browser kept its pid, client and bounds
C18_Witness ==
    \E p \in Callers :
        /\ Returned(p, "Start") /\ ret[p].err = "port is reserved"
        /\ starts[p] = 2
        /\ _port = ReservedPort
        /\ pid[p] # 0 /\ c[p] /\ conn[p] = "open"
        /\ w[p] # ZeroWindow

\* C19: the bounds of a Browser are written by no step but the last statement of the
\* calibration that Start runs, which stores the values computed from the two sizes
\* it measured: every step of Navigate, Evaluate, Select, Click (with its coordinate
\* mapping) and Close leaves them as they are.
C19_BoundsWrittenOnlyByCalibration ==
    [][\A p \in Callers :
          w'[p] # w[p] =>
              /\ pc[p] = "s_cal_s" /\ caller[p] = "start"
              /\ pc'[p] = "idle" /\ ret'[p].op = "Start"
              /\ w'[p] = setupCoords(lw[p], Measured(resp'[p]))]_vars
\* a calibrated Browser on which Navigate and Close were run and Click returned: the
\* bounds are still those of the calibration
C19_Witness ==
    \E p \in Callers :
        /\ Returned(p, "Click")
        /\ navs[p] > 0
        /\ Len(clog[p]) > 0
        /\ w[p] # ZeroWindow
        /\ w[p].Left = 0 /\ w[p].Bottom \in {MaxSize - 1, MaxSize}

\* C20 as stated: after a calibration from non-negative sizes the bounds satisfy
\* 0 <= Top <= Bottom and Left = 0 <= Right.
C20_WellFormed ==
    gstep # "new" =>
        /\ 0 <= b.Top /\ b.Top <= b.Bottom
        /\ b.Left = 0 /\ 0 <= b.Right

\* C20, amended: after a calibration from non-negative sizes the bounds satisfy
\* Top <= Bottom and Left = 0 <= Right, and 0 <= Top holds exactly when the window's
\* inner height is not above the screen's height.
C20_NeverInverted ==
    gstep # "new" =>
        /\ b.Top <= b.Bottom
        /\ b.Left = 0 /\ 0 <= b.Right
        /\ 0 <= b.Top <=> meas.w.Height <= meas.s.Height
\* a calibration from a window higher than the screen: Top is negative, the rectangle
\* is not inverted
C20_Witness ==
    /\ gstep = "init"
    /\ meas.w.Height > meas.s.Height
    /\ b.Top < 0 /\ b.Top <= b.Bottom
    /\ b.Right = meas.s.Width

====
